---- MODULE Spec2Model ----
(***************************************************************************)
(* CircularBuffer (pulse_sensor): a fixed-capacity ring of DataPacket      *)
(* records shared by a producer context calling write and a consumer       *)
(* context calling read and available, every method body running between   *)
(* portENTER_CRITICAL and portEXIT_CRITICAL on one portMUX.                 *)
(*                                                                         *)
(* Each statement of a method is one step of the calling context, so the   *)
(* three stores of write into a slot are three steps.                      *)
(***************************************************************************)
EXTENDS Integers, Sequences, FiniteSets, TLC

\* ------------------------------------------------------------------------
\* Bounds of the exploration
\* ------------------------------------------------------------------------
MaxSize == 3        \* largest bufferSize passed to the constructor
MaxWrites == 4      \* number of write calls in one behaviour
WrapLead == 2       \* writes left before ID wraps, in the long-running start
LiveWrites == 2     \* number of write calls in a behaviour of SpecSched

\* ------------------------------------------------------------------------
\* Fixed-width integers
\* ------------------------------------------------------------------------
\* uint16_t has 2^16 values; a uint32_t is kept as two 16-bit halves so that
\* its full width is represented exactly.
Word == 65536

Zero32 == [hi |-> 0, lo |-> 0]

\* x + 1 on uint32_t
Inc32(x) ==
    IF x.lo = Word - 1
    THEN [hi |-> (x.hi + 1) % Word, lo |-> 0]
    ELSE [hi |-> x.hi, lo |-> x.lo + 1]

\* x < y on uint32_t
Lt32(x, y) == x.hi < y.hi \/ (x.hi = y.hi /\ x.lo < y.lo)

\* ------------------------------------------------------------------------
\* Inputs
\* ------------------------------------------------------------------------
Ctx == {"producer", "consumer"}

\* The (int16_t value, uint32_t time) pairs passed to write
Samples == {[value |-> -7, time |-> 100], [value |-> 12, time |-> 200]}

\* What memory that was never written by write may hold: new DataPacket[n]
\* leaves the slots uninitialised, and so is the caller's packet before the
\* first successful read.
Garbage == {[id |-> [hi |-> 43690, lo |-> 43690], timestamp |-> 999, value |-> -1]}

VARIABLES
    bufferSize,     \* uint16_t bufferSize
    buffer,         \* DataPacket* buffer: slot index -> DataPacket
    head,           \* volatile uint16_t head
    tail,           \* volatile uint16_t tail
    count,          \* volatile uint16_t count
    ID,             \* volatile uint32_t ID
    mutex,          \* portMUX_TYPE mutex: "unlocked" or the context holding it
    role,           \* which methods a context calls
    placement,      \* where the contexts run: on two cores, or on one core
                    \*   with the producer an interrupt handler
    pc,             \* the statement each context is at
    value,          \* write's parameter value
    time,           \* write's parameter time
    overflow,       \* write's local overflow, and its return value
    result,         \* read's local result, and its return value
    available,      \* available's local available, and its return value
    packet,         \* the DataPacket the caller hands to read
    snap,           \* history: the members as they were when the context
                    \*   entered the critical section
    writeLog,       \* history: the write calls, in the order they returned
    readLog,        \* history: the packets of the reads that returned true
    sinceDrain,     \* history: writes and successful reads since count was 0
    mixed,          \* history: some write returned after a successful read
    lastEff,        \* history: the last write or read that returned
    lastAvail,      \* history: the last value available returned, while no
                    \*   write and no successful read has returned since
    hint,           \* history, per context: whether its last call was
                    \*   available, and how many of its next reads the value
                    \*   that available returned still covers
    evicted         \* history: writes that returned true since the last
                    \*   successful read

callers == <<role, placement>>
members == <<bufferSize, buffer, head, tail, count, ID>>
locals == <<value, time, overflow, result, available, packet>>
history == <<snap, writeLog, readLog, sinceDrain, mixed, lastEff, lastAvail,
             hint, evicted>>
vars == <<members, mutex, callers, pc, locals, history>>

NoSnap == [taken |-> FALSE]
Snapshot(c) ==
    [taken |-> TRUE, head |-> head, tail |-> tail, count |-> count, ID |-> ID,
     buffer |-> buffer, packet |-> packet[c]]

NoEff == [op |-> "none", value |-> 0, timestamp |-> 0, countBefore |-> 0]
NoAvail == [valid |-> FALSE, val |-> 0]
NoHint == [fresh |-> FALSE, left |-> 0]

\* ------------------------------------------------------------------------
\* Construction
\* ------------------------------------------------------------------------
\* CircularBuffer::CircularBuffer(size), with the in-class initialisers of
\* head, tail, count and ID.
Construct(size, g) ==
    /\ bufferSize = size
    /\ buffer = [i \in 0..(size - 1) |-> g]
    /\ head = 0
    /\ tail = 0
    /\ count = 0
    /\ ID = Zero32
    /\ mutex = "unlocked"

\* 2^32 - WrapLead, and its remainder modulo size
AgedID == [hi |-> Word - 1, lo |-> Word - WrapLead]
AgedIndex(size) ==
    ((((Word % size) * (Word % size)) % size) + size - (WrapLead % size)) % size

\* The buffer after 2^32 - WrapLead writes, each followed by a read: every
\* record was read, ID is WrapLead short of wrapping, and the slots hold
\* records that are no longer live.
LongRun(size, g) ==
    /\ bufferSize = size
    /\ buffer = [i \in 0..(size - 1) |-> g]
    /\ head = AgedIndex(size)
    /\ tail = AgedIndex(size)
    /\ count = 0
    /\ ID = AgedID
    /\ mutex = "unlocked"

\* The callers, before any call.
CallersAs(g, where, roles) ==
    /\ role = roles
    /\ placement = where
    /\ pc = [c \in Ctx |-> "idle"]
    /\ value = [c \in Ctx |-> 0]
    /\ time = [c \in Ctx |-> 0]
    /\ overflow = [c \in Ctx |-> FALSE]
    /\ result = [c \in Ctx |-> FALSE]
    /\ available = [c \in Ctx |-> 0]
    /\ packet = [c \in Ctx |-> g]
    /\ snap = [c \in Ctx |-> NoSnap]
    /\ writeLog = << >>
    /\ readLog = << >>
    /\ sinceDrain = [w |-> 0, r |-> 0]
    /\ mixed = FALSE
    /\ lastEff = NoEff
    /\ lastAvail = NoAvail
    /\ hint = [c \in Ctx |-> NoHint]
    /\ evicted = 0

\* The callers: one context runs write, the other read and available.
CallersAt(g, where) == CallersAs(g, where, [c \in Ctx |-> c])

\* The producer and the consumer run on different cores.
Callers(g) == CallersAt(g, "two cores")

Init ==
    \E size \in 1..MaxSize, g \in Garbage :
        Construct(size, g) /\ Callers(g)

InitLongRun ==
    \E size \in 1..MaxSize, g \in Garbage :
        (Construct(size, g) \/ LongRun(size, g)) /\ Callers(g)

\* ------------------------------------------------------------------------
\* The critical section
\* ------------------------------------------------------------------------
\* Variant of EnterCritical: the caller does not wait for the mux.
EnterCritical_NoWait(c) ==
    /\ mutex' = c
    /\ snap' = [snap EXCEPT ![c] = Snapshot(c)]

\* portENTER_CRITICAL(&mutex): the caller proceeds once it holds the mux.
EnterCritical(c) ==
    /\ mutex = "unlocked"
    /\ mutex' = c
    /\ snap' = [snap EXCEPT ![c] = Snapshot(c)]

\* Variant of ExitCritical: the mux is not released.
ExitCritical_NoRelease(c) ==
    /\ UNCHANGED mutex
    /\ snap' = [snap EXCEPT ![c] = NoSnap]

\* portEXIT_CRITICAL(&mutex)
ExitCritical(c) ==
    /\ mutex' = "unlocked"
    /\ snap' = [snap EXCEPT ![c] = NoSnap]

Goto(c, to) == pc' = [pc EXCEPT ![c] = to]

WritesStarted ==
    Len(writeLog) + Cardinality({c \in Ctx : pc[c] \in
        {"w_enter", "w_id", "w_ts", "w_val", "w_head", "w_ID", "w_count", "w_exit"}})

\* ------------------------------------------------------------------------
\* bool CircularBuffer::write(int16_t value, uint32_t time)
\* ------------------------------------------------------------------------
CallWrite(c, v, t) ==
    /\ pc[c] = "idle"
    /\ role[c] = "producer"
    /\ WritesStarted < MaxWrites
    /\ value' = [value EXCEPT ![c] = v]
    /\ time' = [time EXCEPT ![c] = t]
    /\ overflow' = [overflow EXCEPT ![c] = FALSE]
    /\ Goto(c, "w_enter")
    /\ UNCHANGED <<members, mutex, callers, result, available, packet, history>>

WriteEnter(c) ==
    /\ pc[c] = "w_enter"
    /\ EnterCritical(c)
    /\ Goto(c, "w_id")
    /\ UNCHANGED <<members, callers, locals, writeLog, readLog, sinceDrain,
                   mixed, lastEff, lastAvail, hint, evicted>>

\* Variant of WriteId: the record takes the identifier after ID.
WriteId_Next(c) ==
    /\ pc[c] = "w_id"
    /\ head \in DOMAIN buffer
    /\ buffer' = [buffer EXCEPT ![head].id = Inc32(ID)]
    /\ Goto(c, "w_ts")
    /\ UNCHANGED <<bufferSize, head, tail, count, ID, mutex, callers, locals, history>>

\* buffer[head].id = ID;   where buffer has a slot at head
WriteId(c) ==
    /\ pc[c] = "w_id"
    /\ head \in DOMAIN buffer
    /\ buffer' = [buffer EXCEPT ![head].id = ID]
    /\ Goto(c, "w_ts")
    /\ UNCHANGED <<bufferSize, head, tail, count, ID, mutex, callers, locals, history>>

\* buffer[head].id = ID;   where buffer = new DataPacket[0] has no slot at
\* head: the store is outside the array and head = (head + 1) % bufferSize
\* divides by zero. The behaviour is undefined from here on, so the context
\* goes to "undefined", which stands for every outcome, and nothing is
\* known of the members any more.
WriteIdOutOfBounds(c) ==
    /\ pc[c] = "w_id"
    /\ head \notin DOMAIN buffer
    /\ Goto(c, "undefined")
    /\ UNCHANGED <<members, mutex, callers, locals, history>>

\* buffer[head].timestamp = time;
WriteTimestamp(c) ==
    /\ pc[c] = "w_ts"
    /\ buffer' = [buffer EXCEPT ![head].timestamp = time[c]]
    /\ Goto(c, "w_val")
    /\ UNCHANGED <<bufferSize, head, tail, count, ID, mutex, callers, locals, history>>

\* Variant of WriteValue: the sample is narrowed to 8 bits before the store.
WriteValue_Narrowed(c) ==
    /\ pc[c] = "w_val"
    /\ buffer' = [buffer EXCEPT ![head].value = value[c] % 256]
    /\ Goto(c, "w_head")
    /\ UNCHANGED <<bufferSize, head, tail, count, ID, mutex, callers, locals, history>>

\* buffer[head].value = value;
WriteValue(c) ==
    /\ pc[c] = "w_val"
    /\ buffer' = [buffer EXCEPT ![head].value = value[c]]
    /\ Goto(c, "w_head")
    /\ UNCHANGED <<bufferSize, head, tail, count, ID, mutex, callers, locals, history>>

\* Variant of WriteHead: the index is not reduced modulo the capacity.
WriteHead_NoWrap(c) ==
    /\ pc[c] = "w_head"
    /\ head' = head + 1
    /\ Goto(c, "w_ID")
    /\ UNCHANGED <<bufferSize, buffer, tail, count, ID, mutex, callers, locals, history>>

\* head = (head + 1) % bufferSize;
WriteHead(c) ==
    /\ pc[c] = "w_head"
    /\ head' = (head + 1) % bufferSize
    /\ Goto(c, "w_ID")
    /\ UNCHANGED <<bufferSize, buffer, tail, count, ID, mutex, callers, locals, history>>

\* Variant of WriteNextId: the identifier stops at 2^32 - 1.
WriteNextId_Saturating(c) ==
    /\ pc[c] = "w_ID"
    /\ ID' = IF ID = [hi |-> Word - 1, lo |-> Word - 1] THEN ID ELSE Inc32(ID)
    /\ Goto(c, "w_count")
    /\ UNCHANGED <<bufferSize, buffer, head, tail, count, mutex, callers, locals, history>>

\* ID++;
WriteNextId(c) ==
    /\ pc[c] = "w_ID"
    /\ ID' = Inc32(ID)
    /\ Goto(c, "w_count")
    /\ UNCHANGED <<bufferSize, buffer, head, tail, count, mutex, callers, locals, history>>

\* Variant of WriteCount: the test is count <= bufferSize.
WriteCount_OffByOne(c) ==
    /\ pc[c] = "w_count"
    /\ IF count <= bufferSize
       THEN /\ count' = (count + 1) % Word
            /\ UNCHANGED <<tail, overflow>>
       ELSE /\ tail' = (tail + 1) % bufferSize
            /\ overflow' = [overflow EXCEPT ![c] = TRUE]
            /\ UNCHANGED count
    /\ Goto(c, "w_exit")
    /\ UNCHANGED <<bufferSize, buffer, head, ID, mutex, callers, value, time,
                   result, available, packet, history>>

\* Variant of WriteCount: a full buffer does not move tail.
WriteCount_NoEvict(c) ==
    /\ pc[c] = "w_count"
    /\ IF count < bufferSize
       THEN /\ count' = (count + 1) % Word
            /\ UNCHANGED <<tail, overflow>>
       ELSE /\ overflow' = [overflow EXCEPT ![c] = TRUE]
            /\ UNCHANGED <<tail, count>>
    /\ Goto(c, "w_exit")
    /\ UNCHANGED <<bufferSize, buffer, head, ID, mutex, callers, value, time,
                   result, available, packet, history>>

\* Variant of WriteCount: a full buffer moves tail but overflow stays false.
WriteCount_NoFlag(c) ==
    /\ pc[c] = "w_count"
    /\ IF count < bufferSize
       THEN /\ count' = (count + 1) % Word
            /\ UNCHANGED <<tail, overflow>>
       ELSE /\ tail' = (tail + 1) % bufferSize
            /\ UNCHANGED <<count, overflow>>
    /\ Goto(c, "w_exit")
    /\ UNCHANGED <<bufferSize, buffer, head, ID, mutex, callers, value, time,
                   result, available, packet, history>>

\* Variant of WriteCount: a write to a full buffer drops the oldest record
\* from the count as well.
WriteCount_Shrink(c) ==
    /\ pc[c] = "w_count"
    /\ IF count < bufferSize
       THEN /\ count' = (count + 1) % Word
            /\ UNCHANGED <<tail, overflow>>
       ELSE /\ tail' = (tail + 1) % bufferSize
            /\ overflow' = [overflow EXCEPT ![c] = TRUE]
            /\ count' = count - 1
    /\ Goto(c, "w_exit")
    /\ UNCHANGED <<bufferSize, buffer, head, ID, mutex, callers, value, time,
                   result, available, packet, history>>

\* if (count < bufferSize) { count++; }
\* else { tail = (tail + 1) % bufferSize; overflow = true; }
WriteCount(c) ==
    /\ pc[c] = "w_count"
    /\ IF count < bufferSize
       THEN /\ count' = (count + 1) % Word
            /\ UNCHANGED <<tail, overflow>>
       ELSE /\ tail' = (tail + 1) % bufferSize
            /\ overflow' = [overflow EXCEPT ![c] = TRUE]
            /\ UNCHANGED count
    /\ Goto(c, "w_exit")
    /\ UNCHANGED <<bufferSize, buffer, head, ID, mutex, callers, value, time,
                   result, available, packet, history>>

\* portEXIT_CRITICAL(&mutex); return overflow;
WriteExit(c) ==
    /\ pc[c] = "w_exit"
    /\ ExitCritical(c)
    /\ Goto(c, "idle")
    /\ writeLog' = Append(writeLog,
            [id |-> snap[c].ID, timestamp |-> time[c], value |-> value[c],
             overflow |-> overflow[c], slot |-> snap[c].head, caller |-> c,
             concurrent |-> \E d \in Ctx \ {c} : pc[d] = "w_enter"])
    /\ sinceDrain' = [sinceDrain EXCEPT !.w = @ + 1]
    /\ mixed' = (mixed \/ Len(readLog) > 0)
    /\ lastEff' = [op |-> "write", value |-> value[c], timestamp |-> time[c],
                   countBefore |-> snap[c].count]
    /\ lastAvail' = NoAvail
    /\ evicted' = IF overflow[c] THEN evicted + 1 ELSE evicted
    /\ UNCHANGED <<members, callers, locals, readLog, hint>>

\* ------------------------------------------------------------------------
\* bool CircularBuffer::read(DataPacket* packet)
\* ------------------------------------------------------------------------
CallRead(c) ==
    /\ pc[c] = "idle"
    /\ role[c] = "consumer"
    /\ result' = [result EXCEPT ![c] = FALSE]
    /\ Goto(c, "r_enter")
    /\ UNCHANGED <<members, mutex, callers, value, time, overflow, available,
                   packet, history>>

ReadEnter(c) ==
    /\ pc[c] = "r_enter"
    /\ EnterCritical(c)
    /\ Goto(c, "r_check")
    /\ UNCHANGED <<members, callers, locals, writeLog, readLog, sinceDrain,
                   mixed, lastEff, lastAvail, hint, evicted>>

\* Variant of ReadCheck: the test for an empty buffer is missing.
ReadCheck_NoTest(c) ==
    /\ pc[c] = "r_check"
    /\ Goto(c, "r_copy")
    /\ UNCHANGED <<members, mutex, callers, locals, history>>

\* Variant of ReadCheck: the empty branch returns at once, past the release.
ReadCheck_EarlyReturn(c) ==
    /\ pc[c] = "r_check"
    /\ IF count > 0 THEN Goto(c, "r_copy") ELSE Goto(c, "idle")
    /\ UNCHANGED <<members, mutex, callers, locals, history>>

\* if (count > 0)
ReadCheck(c) ==
    /\ pc[c] = "r_check"
    /\ IF count > 0 THEN Goto(c, "r_copy") ELSE Goto(c, "r_exit")
    /\ UNCHANGED <<members, mutex, callers, locals, history>>

\* Variant of ReadCopy: the newest record is copied instead of the oldest.
ReadCopy_Newest(c) ==
    /\ pc[c] = "r_copy"
    /\ packet' = [packet EXCEPT ![c] = buffer[(head + bufferSize - 1) % bufferSize]]
    /\ Goto(c, "r_tail")
    /\ UNCHANGED <<members, mutex, callers, value, time, overflow, result,
                   available, history>>

\* *packet = buffer[tail];
ReadCopy(c) ==
    /\ pc[c] = "r_copy"
    /\ packet' = [packet EXCEPT ![c] = buffer[tail]]
    /\ Goto(c, "r_tail")
    /\ UNCHANGED <<members, mutex, callers, value, time, overflow, result,
                   available, history>>

\* Variant of ReadTail: tail is computed from head.
ReadTail_FromHead(c) ==
    /\ pc[c] = "r_tail"
    /\ tail' = (head + 1) % bufferSize
    /\ Goto(c, "r_count")
    /\ UNCHANGED <<bufferSize, buffer, head, count, ID, mutex, callers, locals, history>>

\* tail = (tail + 1) % bufferSize;
ReadTail(c) ==
    /\ pc[c] = "r_tail"
    /\ tail' = (tail + 1) % bufferSize
    /\ Goto(c, "r_count")
    /\ UNCHANGED <<bufferSize, buffer, head, count, ID, mutex, callers, locals, history>>

\* Variant of ReadCount: the record is handed out but still counted.
ReadCount_Keep(c) ==
    /\ pc[c] = "r_count"
    /\ result' = [result EXCEPT ![c] = TRUE]
    /\ Goto(c, "r_exit")
    /\ UNCHANGED <<members, mutex, callers, value, time, overflow, available,
                   packet, history>>

\* count--; result = true;
ReadCount(c) ==
    /\ pc[c] = "r_count"
    /\ count' = (count + Word - 1) % Word
    /\ result' = [result EXCEPT ![c] = TRUE]
    /\ Goto(c, "r_exit")
    /\ UNCHANGED <<bufferSize, buffer, head, tail, ID, mutex, callers, value, time,
                   overflow, available, packet, history>>

\* portEXIT_CRITICAL(&mutex); return result;
ReadExit(c) ==
    /\ pc[c] = "r_exit"
    /\ ExitCritical(c)
    /\ Goto(c, "idle")
    /\ IF result[c]
       THEN /\ readLog' = Append(readLog, packet[c])
            /\ sinceDrain' = IF count = 0 THEN [w |-> 0, r |-> 0]
                             ELSE [sinceDrain EXCEPT !.r = @ + 1]
            /\ lastAvail' = NoAvail
            /\ evicted' = 0
       ELSE UNCHANGED <<readLog, sinceDrain, lastAvail, evicted>>
    /\ lastEff' = [NoEff EXCEPT !.op = "read"]
    /\ hint' = [hint EXCEPT ![c] =
            [fresh |-> FALSE, left |-> IF @.left > 0 THEN @.left - 1 ELSE 0]]
    /\ UNCHANGED <<members, callers, locals, writeLog, mixed>>

\* ------------------------------------------------------------------------
\* uint16_t CircularBuffer::available()
\* ------------------------------------------------------------------------
CallAvailable(c) ==
    /\ pc[c] = "idle"
    /\ role[c] = "consumer"
    /\ Goto(c, "a_enter")
    /\ UNCHANGED <<members, mutex, callers, locals, history>>

AvailableEnter(c) ==
    /\ pc[c] = "a_enter"
    /\ EnterCritical(c)
    /\ Goto(c, "a_load")
    /\ UNCHANGED <<members, callers, locals, writeLog, readLog, sinceDrain,
                   mixed, lastEff, lastAvail, hint, evicted>>

\* Variant of AvailableLoad: the distance from tail to head, which is 0 for
\* a full buffer.
AvailableLoad_Distance(c) ==
    /\ pc[c] = "a_load"
    /\ available' = [available EXCEPT ![c] = (head + bufferSize - tail) % bufferSize]
    /\ Goto(c, "a_exit")
    /\ UNCHANGED <<members, mutex, callers, value, time, overflow, result,
                   packet, history>>

\* Variant of AvailableLoad: the query consumes what it counts.
AvailableLoad_Consume(c) ==
    /\ pc[c] = "a_load"
    /\ available' = [available EXCEPT ![c] = count]
    /\ count' = 0
    /\ Goto(c, "a_exit")
    /\ UNCHANGED <<bufferSize, buffer, head, tail, ID, mutex, callers, value, time,
                   overflow, result, packet, history>>

\* Variant of AvailableLoad: the query reports the free slots.
AvailableLoad_Free(c) ==
    /\ pc[c] = "a_load"
    /\ available' = [available EXCEPT ![c] = bufferSize - count]
    /\ Goto(c, "a_exit")
    /\ UNCHANGED <<members, mutex, callers, value, time, overflow, result,
                   packet, history>>

\* uint16_t available = count;
AvailableLoad(c) ==
    /\ pc[c] = "a_load"
    /\ available' = [available EXCEPT ![c] = count]
    /\ Goto(c, "a_exit")
    /\ UNCHANGED <<members, mutex, callers, value, time, overflow, result,
                   packet, history>>

\* portEXIT_CRITICAL(&mutex); return available;
AvailableExit(c) ==
    /\ pc[c] = "a_exit"
    /\ ExitCritical(c)
    /\ Goto(c, "idle")
    /\ lastAvail' = [valid |-> TRUE, val |-> available[c]]
    /\ hint' = [hint EXCEPT ![c] = [fresh |-> TRUE, left |-> available[c]]]
    /\ UNCHANGED <<members, callers, locals, writeLog, readLog, sinceDrain,
                   mixed, lastEff, evicted>>

\* ------------------------------------------------------------------------
\* Specifications
\* ------------------------------------------------------------------------
Write(c) ==
    \/ \E s \in Samples : CallWrite(c, s.value, s.time)
    \/ WriteEnter(c)
    \/ WriteId(c)
    \/ WriteTimestamp(c)
    \/ WriteValue(c)
    \/ WriteHead(c)
    \/ WriteNextId(c)
    \/ WriteCount(c)
    \/ WriteExit(c)

Read(c) ==
    \/ CallRead(c)
    \/ ReadEnter(c)
    \/ ReadCheck(c)
    \/ ReadCopy(c)
    \/ ReadTail(c)
    \/ ReadCount(c)
    \/ ReadExit(c)

Available(c) ==
    \/ CallAvailable(c)
    \/ AvailableEnter(c)
    \/ AvailableLoad(c)
    \/ AvailableExit(c)

Next == \E c \in Ctx : Write(c) \/ Read(c) \/ Available(c)

\* A freshly constructed buffer
Spec == Init /\ [][Next]_vars

\* A freshly constructed buffer, or one that has been running for
\* 2^32 - WrapLead writes
SpecLongRun == InitLongRun /\ [][Next]_vars

\* The constructor takes any uint16_t size, 0 included: it has no test of
\* size.
InitAnySize ==
    \E size \in 0..MaxSize, g \in Garbage :
        Construct(size, g) /\ Callers(g)

NextAnySize == Next \/ \E c \in Ctx : WriteIdOutOfBounds(c)

SpecAnySize == InitAnySize /\ [][NextAnySize]_vars

\* Nothing in the class keeps a second context from calling write: both
\* contexts run write, on a fresh buffer or a long-running one.
InitWriters ==
    \E size \in 1..MaxSize, g \in Garbage :
        /\ Construct(size, g) \/ LongRun(size, g)
        /\ CallersAs(g, "two cores", [c \in Ctx |-> "producer"])

NextWriters == \E c \in Ctx : Write(c)

SpecTwoWriters == InitWriters /\ [][NextWriters]_vars

\* ------------------------------------------------------------------------
\* Scheduling
\* ------------------------------------------------------------------------
Placements == {"two cores", "one core"}

InitSched ==
    \E size \in 1..MaxSize, g \in Garbage, where \in Placements :
        Construct(size, g) /\ CallersAt(g, where)

\* portENTER_CRITICAL(&mutex) disables the interrupts of the calling core
\* until portEXIT_CRITICAL(&mutex).
InterruptsMasked == mutex # "unlocked"

\* On two cores both contexts run at any time. On one core the producer is
\* an interrupt handler (or a task of higher priority) on the consumer's
\* core: it starts only while interrupts are enabled, and the consumer runs
\* only while the producer is not in a call.
Scheduled(c) ==
    placement = "one core" =>
        IF role[c] = "producer"
        THEN pc[c] # "idle" \/ ~InterruptsMasked
        ELSE \A d \in Ctx : role[d] = "producer" => pc[d] = "idle"

SchedWrite(c) ==
    /\ Scheduled(c)
    /\ pc[c] = "idle" => Len(writeLog) < LiveWrites
    /\ Write(c)

SchedRead(c) == Scheduled(c) /\ Read(c)

SchedAvailable(c) == Scheduled(c) /\ Available(c)

NextSched == \E c \in Ctx : SchedWrite(c) \/ SchedRead(c) \/ SchedAvailable(c)

\* A context inside a call is run by its core.
Running(c) ==
    pc[c] # "idle" /\ (SchedWrite(c) \/ SchedRead(c) \/ SchedAvailable(c))

\* A context that spins on the mux takes it once it is free at one of its
\* attempts.
Acquire(c) ==
    Scheduled(c) /\ (WriteEnter(c) \/ ReadEnter(c) \/ AvailableEnter(c))

FairSched == \A c \in Ctx : WF_vars(Running(c)) /\ SF_vars(Acquire(c))

SpecSched == InitSched /\ [][NextSched]_vars /\ FairSched

\* ------------------------------------------------------------------------
\* Type correctness
\* ------------------------------------------------------------------------
TypeOK ==
    /\ bufferSize \in 1..MaxSize
    /\ head \in 0..(Word - 1)
    /\ tail \in 0..(Word - 1)
    /\ count \in 0..(Word - 1)
    /\ mutex \in Ctx \cup {"unlocked"}
    /\ Len(writeLog) <= MaxWrites

\* ------------------------------------------------------------------------
\* Vocabulary of the properties
\* ------------------------------------------------------------------------
AllIdle == \A c \in Ctx : pc[c] = "idle"

\* No write has found the buffer full
NoOverflow == \A i \in 1..Len(writeLog) : ~writeLog[i].overflow

NumOverflow == Cardinality({i \in 1..Len(writeLog) : writeLog[i].overflow})

\* The DataPacket a logged write stored
Stored(w) == [id |-> w.id, timestamp |-> w.timestamp, value |-> w.value]

MaxU32 == [hi |-> Word - 1, lo |-> Word - 1]

\* The successful reads return the writes in write order, value and
\* timestamp unchanged
FifoPrefix ==
    /\ Len(readLog) <= Len(writeLog)
    /\ \A i \in 1..Len(readLog) :
        /\ readLog[i].value = writeLog[i].value
        /\ readLog[i].timestamp = writeLog[i].timestamp

\* ------------------------------------------------------------------------
\* C1
\* ------------------------------------------------------------------------
\* C1 as stated: while no write has found the buffer full, the successful
\* reads return the written records in write order with value and timestamp
\* unchanged, and the ids of successive returned records are strictly
\* increasing.
C1_FifoStrictlyIncreasingIds ==
    NoOverflow =>
        /\ FifoPrefix
        /\ \A i \in 1..(Len(readLog) - 1) : Lt32(readLog[i].id, readLog[i + 1].id)

\* C1 amended: while no write has found the buffer full, the successful
\* reads return the written records in write order with value and timestamp
\* unchanged, and the id of each returned record is the id of the previous
\* one plus 1 modulo 2^32 (so strictly increasing except from 2^32 - 1 to 0).
C1_FifoSuccessiveIds ==
    NoOverflow =>
        /\ FifoPrefix
        /\ \A i \in 1..(Len(readLog) - 1) : readLog[i + 1].id = Inc32(readLog[i].id)

\* Two records were read across the wrap of ID, with no overflow.
C1_Witness ==
    /\ NoOverflow
    /\ \E i \in 1..(Len(readLog) - 1) :
        readLog[i].id = MaxU32 /\ readLog[i + 1].id = Zero32

\* ------------------------------------------------------------------------
\* C2
\* ------------------------------------------------------------------------
\* C2 as stated: while no write has found the buffer full, available()
\* returns the number of writes since count was last 0.
C2_AvailableIsWritesSinceDrain ==
    \A c \in Ctx :
        (pc[c] = "a_exit" /\ NoOverflow) => available[c] = sinceDrain.w

\* C2 amended: while no write has found the buffer full, available() returns
\* the number of writes since count was last 0 minus the number of successful
\* reads since then.
C2_AvailableIsWritesMinusReads ==
    \A c \in Ctx :
        (pc[c] = "a_exit" /\ NoOverflow) =>
            available[c] = sinceDrain.w - sinceDrain.r

\* available() is about to return a non-zero number after a read took a
\* record out of a buffer that was not drained by it.
C2_Witness ==
    \E c \in Ctx :
        /\ pc[c] = "a_exit"
        /\ NoOverflow
        /\ sinceDrain.r > 0
        /\ available[c] > 0

\* ------------------------------------------------------------------------
\* C3
\* ------------------------------------------------------------------------
\* A write returns from a buffer that had count < bufferSize with count one
\* higher, tail unchanged and false; otherwise with count = bufferSize, tail
\* advanced by one modulo bufferSize and true.
WriteReturnsOverflow(c) ==
    (pc[c] = "w_exit" /\ pc'[c] = "idle") =>
        IF snap[c].count < bufferSize
        THEN /\ count' = snap[c].count + 1
             /\ tail' = snap[c].tail
             /\ overflow'[c] = FALSE
        ELSE /\ snap[c].count = bufferSize
             /\ count' = bufferSize
             /\ tail' = (snap[c].tail + 1) % bufferSize
             /\ overflow'[c] = TRUE

\* On a fresh buffer with no successful read, the first bufferSize writes
\* return false and every later one true.
FreshWritesOverflow ==
    Len(readLog) = 0 =>
        \A i \in 1..Len(writeLog) : writeLog[i].overflow = (i > bufferSize)

\* C3: write returns true exactly when count = bufferSize as it takes
\* effect, incrementing count otherwise and advancing tail if so; on a fresh
\* buffer with no reads the first bufferSize writes return false and the
\* later ones true.
C3_WriteOverflow ==
    /\ [][\A c \in Ctx : WriteReturnsOverflow(c)]_vars
    /\ []FreshWritesOverflow

\* A fresh buffer, never read, has taken more writes than it has slots.
C3_Witness ==
    /\ Len(readLog) = 0
    /\ Len(writeLog) > bufferSize + 1
    /\ bufferSize > 1
    /\ writeLog[Len(writeLog)].overflow
    /\ AllIdle

\* ------------------------------------------------------------------------
\* C4
\* ------------------------------------------------------------------------
\* C4: after more than bufferSize writes with no successful read before the
\* last of them, the reads return the bufferSize most recently written
\* records in write order, and the read after them returns false.
C4_DrainYieldsNewest ==
    (~mixed /\ Len(writeLog) > bufferSize) =>
        /\ Len(readLog) <= bufferSize
        /\ \A i \in 1..Len(readLog) :
            readLog[i] = Stored(writeLog[Len(writeLog) - bufferSize + i])
        /\ \A c \in Ctx :
            (pc[c] = "r_exit" /\ Len(readLog) = bufferSize) => result[c] = FALSE

\* The drain is complete and one more read is returning.
C4_Witness ==
    /\ ~mixed
    /\ Len(writeLog) > bufferSize
    /\ bufferSize > 1
    /\ Len(readLog) = bufferSize
    /\ \E c \in Ctx : pc[c] = "r_exit"

\* ------------------------------------------------------------------------
\* C5
\* ------------------------------------------------------------------------
\* C5: whenever no operation is in progress, the number of writes that
\* returned equals the number of reads that returned true plus the number of
\* writes that returned true plus count.
C5_Accounting ==
    AllIdle => Len(writeLog) = Len(readLog) + NumOverflow + count

\* Records were read, evicted and are still stored, all in one run.
C5_Witness ==
    /\ AllIdle
    /\ Len(readLog) > 0
    /\ NumOverflow > 0
    /\ count > 0
    /\ mixed

\* ------------------------------------------------------------------------
\* C6
\* ------------------------------------------------------------------------
\* C6: every record a successful read returns is the (id, timestamp, value)
\* triple stored by one single write call.
C6_NoTornRecord ==
    /\ \A i \in 1..Len(readLog) :
        \E j \in 1..Len(writeLog) : readLog[i] = Stored(writeLog[j])
    /\ \A c \in Ctx :
        (pc[c] = "r_exit" /\ result[c]) =>
            \E j \in 1..Len(writeLog) : packet[c] = Stored(writeLog[j])

\* A read has copied a record out of a full buffer while the producer is
\* inside a write call, waiting to overwrite that slot.
C6_Witness ==
    \E c, d \in Ctx :
        /\ pc[c] = "r_exit"
        /\ result[c]
        /\ snap[c].count = bufferSize
        /\ pc[d] = "w_enter"

\* ------------------------------------------------------------------------
\* C7
\* ------------------------------------------------------------------------
\* A fresh buffer has head, tail, count and ID all 0.
FreshZero ==
    Len(writeLog) = 0 /\ (\A c \in Ctx : pc[c] \notin {"w_head", "w_ID", "w_count", "w_exit"})
        => head = 0 /\ tail = 0 /\ count = 0 /\ ID = Zero32

\* A read that entered with count = 0 returns false with the caller's packet
\* and every member as they were.
ReadEmptyReturns(c) ==
    (pc[c] = "r_exit" /\ pc'[c] = "idle" /\ snap[c].count = 0) =>
        /\ result'[c] = FALSE
        /\ packet'[c] = snap[c].packet
        /\ head' = snap[c].head
        /\ tail' = snap[c].tail
        /\ count' = 0
        /\ ID' = snap[c].ID
        /\ buffer' = snap[c].buffer

\* C7: read on an empty buffer (fresh, with all members 0, or drained)
\* returns false and changes neither the caller's packet nor head, tail,
\* count, ID or any slot.
C7_ReadEmpty ==
    /\ []FreshZero
    /\ [][\A c \in Ctx : ReadEmptyReturns(c)]_vars

\* A read has just returned false from a buffer that was drained by reads.
C7_Witness ==
    \E c \in Ctx :
        /\ pc[c] = "idle"
        /\ lastEff.op = "read"
        /\ result[c] = FALSE
        /\ Len(readLog) > 0
        /\ count = 0

\* ------------------------------------------------------------------------
\* C8
\* ------------------------------------------------------------------------
\* C8: a read that entered with count > 0 returns true with the record that
\* was at tail, tail advanced by one modulo bufferSize and count one lower,
\* and with head, ID and every slot as they were.
ReadReturnsOldest(c) ==
    (pc[c] = "r_exit" /\ pc'[c] = "idle" /\ snap[c].count > 0) =>
        /\ result'[c] = TRUE
        /\ packet'[c] = snap[c].buffer[snap[c].tail]
        /\ tail' = (snap[c].tail + 1) % bufferSize
        /\ count' = snap[c].count - 1
        /\ head' = snap[c].head
        /\ ID' = snap[c].ID
        /\ buffer' = snap[c].buffer

C8_ReadFrame == [][\A c \in Ctx : ReadReturnsOldest(c)]_vars

\* A read has just returned true and left other records stored.
C8_Witness ==
    \E c \in Ctx :
        /\ pc[c] = "idle"
        /\ lastEff.op = "read"
        /\ result[c] = TRUE
        /\ count > 1

\* ------------------------------------------------------------------------
\* C9
\* ------------------------------------------------------------------------
\* C9 as stated: a read that directly follows a write of (v, t) returns true
\* with value v and timestamp t, whatever the buffer held.
C9_RoundTripAnyState ==
    \A c \in Ctx :
        (pc[c] = "r_exit" /\ lastEff.op = "write") =>
            /\ result[c] = TRUE
            /\ packet[c].value = lastEff.value
            /\ packet[c].timestamp = lastEff.timestamp

\* C9 amended: a read that directly follows a write of (v, t) returns true;
\* its record has value v and timestamp t when the write found the buffer
\* empty or bufferSize is 1.
C9_RoundTripFromEmpty ==
    \A c \in Ctx :
        (pc[c] = "r_exit" /\ lastEff.op = "write") =>
            /\ result[c] = TRUE
            /\ (lastEff.countBefore = 0 \/ bufferSize = 1) =>
                /\ packet[c].value = lastEff.value
                /\ packet[c].timestamp = lastEff.timestamp

\* A read directly follows a write into a buffer that earlier reads drained.
C9_Witness ==
    \E c \in Ctx :
        /\ pc[c] = "r_exit"
        /\ lastEff.op = "write"
        /\ lastEff.countBefore = 0
        /\ bufferSize > 1
        /\ Len(readLog) > 0
        /\ result[c] = TRUE

\* ------------------------------------------------------------------------
\* C10
\* ------------------------------------------------------------------------
\* available returns the count it found on entering, with every member as
\* it was, and the same value as the previous call when no write and no
\* successful read returned in between.
AvailableReturnsCount(c) ==
    (pc[c] = "a_exit" /\ pc'[c] = "idle") =>
        /\ available'[c] = snap[c].count
        /\ head' = snap[c].head
        /\ tail' = snap[c].tail
        /\ count' = snap[c].count
        /\ ID' = snap[c].ID
        /\ buffer' = snap[c].buffer
        /\ lastAvail.valid => available'[c] = lastAvail.val

\* C10: available() changes neither head, tail, count, ID nor any slot and
\* returns count; repeated with no write or read taking effect in between,
\* it returns the same value.
C10_AvailableObserves == [][\A c \in Ctx : AvailableReturnsCount(c)]_vars

\* available is returning a non-zero count for the second time in a row.
C10_Witness ==
    \E c \in Ctx :
        /\ pc[c] = "a_exit"
        /\ lastAvail.valid
        /\ lastAvail.val > 0

\* ------------------------------------------------------------------------
\* C11
\* ------------------------------------------------------------------------
\* C11: a buffer of capacity 0 is rejected at construction, so no write,
\* read or available is ever called on one and no index is ever computed
\* modulo 0.
C11_ZeroCapacityRejected ==
    bufferSize = 0 => \A c \in Ctx : pc[c] = "idle"

Ops == {"write", "read", "available"}

SchedLen == 4

Schedules == [1..SchedLen -> Ops]

\* if (count < bufferSize) count++;  (the full branch leaves count alone)
CountAfterWrite(size, n) == IF n < size THEN n + 1 ELSE n

\* if (count > 0) { ... count--; result = true; }
CountAfterRead(n) == IF n > 0 THEN n - 1 ELSE n

RECURSIVE CountAfter(_, _, _)
CountAfter(size, sched, k) ==
    IF k = 0 THEN 0
    ELSE LET n == CountAfter(size, sched, k - 1)
         IN  CASE sched[k] = "write" -> CountAfterWrite(size, n)
               [] sched[k] = "read" -> CountAfterRead(n)
               [] OTHER -> n

\* Call k of the schedule is available and call j is the consumer's next
\* read.
NextReadAfter(sched, k, j) ==
    /\ k < j
    /\ sched[k] = "available"
    /\ sched[j] = "read"
    /\ \A i \in (k + 1)..(j - 1) : sched[i] = "write"

\* available returned a nonzero value and the next read returned false.
SpuriousEmpty(size, sched) ==
    \E k, j \in 1..SchedLen :
        /\ NextReadAfter(sched, k, j)
        /\ CountAfter(size, sched, k - 1) > 0
        /\ CountAfter(size, sched, j - 1) = 0

\* available returned 0 and the next read returned true.
SpuriousData(size, sched) ==
    \E k, j \in 1..SchedLen :
        /\ NextReadAfter(sched, k, j)
        /\ CountAfter(size, sched, k - 1) = 0
        /\ CountAfter(size, sched, j - 1) > 0

\* C13 as stated: with one producer and one consumer there is an
\* interleaving in which available returns a nonzero value and the
\* consumer's next read returns false, and there is an interleaving in which
\* available returns 0 and the consumer's next read returns true.
C13_RaceBothWays ==
    /\ \E sched \in Schedules : SpuriousEmpty(bufferSize, sched)
    /\ \E sched \in Schedules : SpuriousData(bufferSize, sched)

\* The half of C13 that does happen, over the same schedules.
C13_DataAfterZeroExists ==
    \E sched \in Schedules : SpuriousData(bufferSize, sched)

\* C13, amended: with one producer and one consumer, a read that directly
\* follows the consumer's available never returns false when that available
\* returned a nonzero value; the race exists in the other direction only
\* (available returns 0 and the next read returns true).
C13_NonzeroThenReadSucceeds ==
    \A c \in Ctx :
        (pc[c] = "r_exit" /\ hint[c].fresh /\ hint[c].left > 0) => result[c]

\* The consumer's available returned 0, the producer wrote, and the
\* consumer's next read found the record.
C13_Witness ==
    \E c \in Ctx :
        /\ pc[c] = "r_exit"
        /\ hint[c].fresh
        /\ hint[c].left = 0
        /\ result[c]

\* ---------------------------------------------------------------------------
\* C14  ranges of head, tail and count
\* ---------------------------------------------------------------------------

\* C14: in every reachable state outside the critical section, for every
\* capacity >= 1, 0 <= head < capacity, 0 <= tail < capacity and
\* 0 <= count <= capacity; so available never returns more than the capacity.
C14_IndexRanges ==
    /\ mutex = "unlocked" =>
            /\ head \in 0..(bufferSize - 1)
            /\ tail \in 0..(bufferSize - 1)
            /\ count \in 0..bufferSize
    /\ \A c \in Ctx : pc[c] = "a_exit" => available[c] \in 0..bufferSize

\* A full buffer of capacity >= 2 whose head has wrapped and whose tail has
\* been pushed on by an overflowing write, with available about to return
\* the capacity.
C14_Witness ==
    \E c \in Ctx :
        /\ pc[c] = "a_exit"
        /\ available[c] = bufferSize
        /\ bufferSize >= 2
        /\ NumOverflow >= 1
        /\ tail > 0

\* ---------------------------------------------------------------------------
\* C15  head = (tail + count) mod capacity
\* ---------------------------------------------------------------------------

\* C15: in every reachable state outside the critical section,
\* head = (tail + count) mod capacity, and head = tail exactly when the
\* buffer is empty (count = 0) or full (count = capacity).
C15_HeadIsTailPlusCount ==
    mutex = "unlocked" =>
        /\ head = (tail + count) % bufferSize
        /\ (head = tail) <=> (count = 0 \/ count = bufferSize)

\* Outside the critical section: a partly filled buffer whose live region
\* wraps past the end of the array (head < tail), after writes, an overflow
\* and a read.
C15_Witness ==
    /\ mutex = "unlocked"
    /\ head < tail
    /\ count \in 1..(bufferSize - 1)
    /\ NumOverflow >= 1
    /\ Len(readLog) >= 1

\* ---------------------------------------------------------------------------
\* C16  mutual exclusion
\* ---------------------------------------------------------------------------

\* The statements between portENTER_CRITICAL and portEXIT_CRITICAL.
InCS(c) ==
    pc[c] \in {"w_id", "w_ts", "w_val", "w_head", "w_ID", "w_count", "w_exit",
               "r_check", "r_copy", "r_tail", "r_count", "r_exit",
               "a_load", "a_exit"}

\* At most one context is inside, the one inside holds the mux, and the mux
\* is unlocked when no operation is in progress.
ExclusiveSection ==
    /\ \A c, d \in Ctx : (InCS(c) /\ InCS(d)) => c = d
    /\ \A c \in Ctx : InCS(c) => mutex = c
    /\ AllIdle => mutex = "unlocked"

\* A step that changes a member, or stores into a local what it read from a
\* member, is a step of the context that holds the mux.
AccessUnderMutex ==
    (members' # members \/ packet' # packet \/ available' # available
        \/ (\E c \in Ctx : overflow'[c] /\ ~overflow[c])
        \/ (\E c \in Ctx : result'[c] /\ ~result[c]))
    => \E c \in Ctx : InCS(c) /\ mutex = c /\ pc'[c] # pc[c]

\* A context that leaves an operation from inside the critical section
\* leaves the mux unlocked, whichever branch it took.
ReleaseOnReturn ==
    \A c \in Ctx : (InCS(c) /\ pc'[c] = "idle") => mutex' = "unlocked"

\* C16: at most one context is inside the critical section at any time;
\* every read or update of head, tail, count, ID and the slots by write, read
\* and available happens while the context holds the critical section; every
\* operation releases it on every exit path (read's empty branch and write's
\* full branch included), so the mux is unlocked whenever no operation is in
\* progress.
C16_MutualExclusion ==
    /\ []ExclusiveSection
    /\ [][AccessUnderMutex /\ ReleaseOnReturn]_vars

\* read is on its empty branch, about to release, while the other context
\* waits at portENTER_CRITICAL of a write.
C16_Witness ==
    \E c, d \in Ctx :
        /\ pc[c] = "r_exit"
        /\ ~result[c]
        /\ mutex = c
        /\ pc[d] = "w_enter"

\* ---------------------------------------------------------------------------
\* C17  two contexts calling write concurrently
\* ---------------------------------------------------------------------------

\* n executions of ID++
RECURSIVE Add32(_, _)
Add32(x, n) == IF n = 0 THEN x ELSE Add32(Inc32(x), n - 1)

\* Writes i and i + 1 of the log were concurrent calls of two contexts: the
\* second had called write and was waiting at portENTER_CRITICAL when the
\* first left the critical section.
Overlapped(i) ==
    /\ writeLog[i].concurrent
    /\ writeLog[i + 1].caller # writeLog[i].caller

\* No update of the two calls is lost: consecutive ids; and once both have
\* completed, ID and head have advanced by 2 and the invariants on head, tail
\* and count hold.
SerializedPair(i) ==
    /\ writeLog[i + 1].id = Inc32(writeLog[i].id)
    /\ writeLog[i + 1].id # writeLog[i].id
    /\ (i + 1 = Len(writeLog) /\ mutex = "unlocked") =>
            /\ ID = Add32(writeLog[i].id, 2)
            /\ head = (writeLog[i].slot + 2) % bufferSize
            /\ head \in 0..(bufferSize - 1)
            /\ tail \in 0..(bufferSize - 1)
            /\ count \in 0..bufferSize
            /\ head = (tail + count) % bufferSize

\* C17 as stated: two concurrent calls of write are fully serialized; after
\* both complete ID has advanced by 2 (mod 2^32), head by 2 (mod capacity),
\* the two records carry distinct consecutive ids and occupy distinct slots,
\* and the invariants on head, tail and count hold.
C17_SerializedDistinctSlots ==
    \A i \in 1..(Len(writeLog) - 1) :
        Overlapped(i) =>
            /\ SerializedPair(i)
            /\ writeLog[i + 1].slot # writeLog[i].slot

\* C17, amended: as stated, except that the two records occupy successive
\* slots, slot and (slot + 1) mod capacity, which are distinct only when the
\* capacity is at least 2; with capacity 1 both are stored in the one slot
\* and the second replaces the first.
C17_SerializedSuccessiveSlots ==
    \A i \in 1..(Len(writeLog) - 1) :
        Overlapped(i) =>
            /\ SerializedPair(i)
            /\ writeLog[i + 1].slot = (writeLog[i].slot + 1) % bufferSize
            /\ bufferSize >= 2 => writeLog[i + 1].slot # writeLog[i].slot
            /\ bufferSize = 1 => writeLog[i + 1].slot = writeLog[i].slot

\* Two concurrent writes have both completed on a long-running buffer, the
\* first with id 2^32 - 1 and the second with id 0.
C17_Witness ==
    /\ Len(writeLog) >= 2
    /\ Overlapped(Len(writeLog) - 1)
    /\ mutex = "unlocked"
    /\ writeLog[Len(writeLog) - 1].id = MaxU32
    /\ writeLog[Len(writeLog)].id = Zero32

\* ---------------------------------------------------------------------------
\* C18  what a write stores, and the identifier at 2^32
\* ---------------------------------------------------------------------------

\* A write about to leave the critical section has stored its record in the
\* slot at the head it found, left the other slots alone, advanced head by
\* one modulo the capacity and ID by one modulo 2^32.
WriteStored(c) ==
    /\ buffer[snap[c].head] =
            [id |-> snap[c].ID, timestamp |-> time[c], value |-> value[c]]
    /\ \A i \in DOMAIN buffer : i # snap[c].head => buffer[i] = snap[c].buffer[i]
    /\ head = (snap[c].head + 1) % bufferSize
    /\ ID = Inc32(snap[c].ID)
    /\ snap[c].ID = MaxU32 => (buffer[snap[c].head].id = MaxU32 /\ ID = Zero32)

\* C18: every write, overflowing or not, stores {id: ID before the call,
\* timestamp, value} in the slot at the pre-call head, advances head to
\* (head + 1) mod capacity and ID to (ID + 1) mod 2^32; a write at
\* ID = 2^32 - 1 stores id 2^32 - 1 and leaves ID = 0; the k-th write since
\* construction carries id (k - 1) mod 2^32 (on the long-running buffer the
\* first logged write is write number 2^32 - WrapLead + 1).
C18_WriteStoresAtHead ==
    /\ \A c \in Ctx : pc[c] = "w_exit" => WriteStored(c)
    /\ \A k \in 1..Len(writeLog) :
            /\ writeLog[1].id \in {Zero32, AgedID}
            /\ writeLog[k].id = Add32(writeLog[1].id, k - 1)

\* An overflowing write that found ID = 2^32 - 1 is about to return, ID
\* being 0 again.
C18_Witness ==
    \E c \in Ctx :
        /\ pc[c] = "w_exit"
        /\ overflow[c]
        /\ snap[c].ID = MaxU32
        /\ ID = Zero32

\* ---------------------------------------------------------------------------
\* C19  identifiers of the live records
\* ---------------------------------------------------------------------------

\* The i-th live record, counted from the oldest (i = 0).
Live(i) == buffer[(tail + i) % bufferSize]

\* The live records carry consecutive identifiers ending just before ID:
\* record i has identifier ID - count + i (mod 2^32), i.e. count - i
\* increments lead from it to ID.
LiveIdsConsecutive ==
    \A i \in 0..(count - 1) : Add32(Live(i).id, count - i) = ID

LiveIdsDistinct ==
    \A i, j \in 0..(count - 1) : i # j => Live(i).id # Live(j).id

\* A successful read about to return, when an earlier read succeeded: its
\* identifier is that of the earlier read plus 1 plus the number of writes
\* that overflowed since.
ReadIdGap(c) ==
    (pc[c] = "r_exit" /\ result[c] /\ Len(readLog) > 0) =>
        packet[c].id = Add32(readLog[Len(readLog)].id, 1 + evicted)

\* C19: in every reachable state outside the critical section, for every i
\* in 0..count-1 the slot at (tail + i) mod capacity holds id
\* (ID - count + i) mod 2^32; so the ids of live records are pairwise
\* distinct, and the id a successful read returns exceeds that of the
\* previous successful read by exactly 1 plus the number of overflowing
\* writes that took effect between the two reads (mod 2^32).
C19_LiveIds ==
    /\ mutex = "unlocked" => (LiveIdsConsecutive /\ LiveIdsDistinct)
    /\ \A c \in Ctx : ReadIdGap(c)

\* A second successful read about to return, an overflowing write having
\* evicted a record since the first, with identifiers that passed 2^32
\* in between.
C19_Witness ==
    \E c \in Ctx :
        /\ pc[c] = "r_exit"
        /\ result[c]
        /\ Len(readLog) > 0
        /\ evicted > 0
        /\ Lt32(packet[c].id, readLog[Len(readLog)].id)

\* ---------------------------------------------------------------------------
\* C20  available is a lower bound for the consumer
\* ---------------------------------------------------------------------------

\* The count statement of write increments count or leaves it at the
\* capacity, and a step that decreases count is the count-- of read.
CountMoves ==
    /\ \A c \in Ctx : (pc[c] = "w_count" /\ pc'[c] = "w_exit") =>
            \/ count' = count + 1
            \/ (count' = count /\ count = bufferSize)
    /\ \A c \in Ctx : (pc[c] \in {"w_enter", "w_id", "w_ts", "w_val", "w_head",
                                  "w_ID", "w_count", "w_exit"}
                        /\ pc'[c] # pc[c]) => count' >= count
    /\ count' < count => \E c \in Ctx : pc[c] = "r_count" /\ pc'[c] = "r_exit"

\* A read that is among the next n reads after the consumer's available
\* returned n has found a record.
CoveredReadSucceeds ==
    \A c \in Ctx : (pc[c] = "r_exit" /\ hint[c].left > 0) => result[c]

\* C20: write never decreases count (it increments it or leaves it at the
\* capacity) and only read decreases it; so, with one consumer and any
\* number of concurrent writes, if the consumer's available returned n > 0,
\* the consumer's next n reads all return true.
C20_AvailableIsLowerBound ==
    /\ []CoveredReadSucceeds
    /\ [][CountMoves]_vars

\* The second of the reads that available covered is about to return true,
\* a write having overflowed since the first of them.
C20_Witness ==
    \E c \in Ctx :
        /\ pc[c] = "r_exit"
        /\ result[c]
        /\ ~hint[c].fresh
        /\ hint[c].left >= 1
        /\ evicted > 0

====
